---- MODULE Spec2Model ----
(***************************************************************************)
(* The warehouse loader (scripts/etl_to_dw.py) and the cube builder        *)
(* (scripts/OLAP/olap_cubing.py) of the smart-store pipeline.              *)
(*                                                                         *)
(* The warehouse is a SQLite file.  `committed` is what the file durably   *)
(* holds (what any other connection reads), `work` is what the loader's    *)
(* own connection sees, its uncommitted statements included.  A load is    *)
(* the sequence of statements of load_data_to_db, one action per statement *)
(* so that the committed contents between two statements are states of     *)
(* the model.                                                              *)
(*                                                                         *)
(* Data frames are [dtypes, rows]: dtypes maps each column to the dtype    *)
(* name pandas reports, rows is the sequence of rows, each a function      *)
(* from the columns to the cell values.  Keys and amounts are integers,    *)
(* dates are <<year, month, day>>, every other cell is its CSV text.       *)
(***************************************************************************)
EXTENDS Integers, Sequences, FiniteSets, TLC

\* Number of times the pipeline's caller runs load_data_to_db.
MaxLoads == 2

Relations == {"customers", "products", "sales"}

\* SQL NULL, stored for a table column the inserted frame does not have.
NULL == "NULL"

-----------------------------------------------------------------------------
(* Column renaming of the three insert functions.                          *)

CustomersRename ==
    [CustomerID |-> "customer_id", Name |-> "name", Region |-> "region",
     JoinDate |-> "join_date", LoyaltyPoints |-> "loyalty_points",
     PreferredContactMethod |-> "preferred_contact_method"]

ProductsRename ==
    [ProductID |-> "product_id", ProductName |-> "product_name",
     Category |-> "category", UnitPrice |-> "unit_price",
     StockQuantity |-> "stock_quantity", Supplier |-> "supplier"]

SalesRename ==
    [TransactionID |-> "transaction_id", SaleDate |-> "sale_date",
     CustomerID |-> "customer_id", ProductID |-> "product_id",
     StoreID |-> "store_id", CampaignID |-> "campaign_id",
     SaleAmount |-> "sale_amount", DiscountPercent |-> "discount_percent",
     PaymentType |-> "payment_type"]

RenameMap(rel) ==
    CASE rel = "customers" -> CustomersRename
      [] rel = "products"  -> ProductsRename
      [] rel = "sales"     -> SalesRename

\* DataFrame.rename(columns=map): a column named in the map gets the mapped
\* name, any other column keeps its own.
RenameColumn(map, col) == IF col \in DOMAIN map THEN map[col] ELSE col

RenameRow(map, row) ==
    [c \in {RenameColumn(map, s) : s \in DOMAIN row} |->
        row[CHOOSE s \in DOMAIN row : RenameColumn(map, s) = c]]

Rename(map, df) ==
    [dtypes |-> RenameRow(map, df.dtypes),
     rows   |-> [i \in 1..Len(df.rows) |-> RenameRow(map, df.rows[i])]]

-----------------------------------------------------------------------------
(* The warehouse relations as sql/dw_tables.sql declares them.  That file  *)
(* is not among the sources; the columns are the snake-case names the      *)
(* insert functions rename to, the keys are the identity keys of the       *)
(* specification's data model.                                             *)

TableColumns(rel) == {RenameMap(rel)[s] : s \in DOMAIN RenameMap(rel)}

PrimaryKey(rel) ==
    CASE rel = "customers" -> "customer_id"
      [] rel = "products"  -> "product_id"
      [] rel = "sales"     -> "transaction_id"

UniqueKeys(rel, rows) ==
    \A i, j \in 1..Len(rows) :
        rows[i][PrimaryKey(rel)] = rows[j][PrimaryKey(rel)] => i = j

EmptyDb == [customers |-> <<>>, products |-> <<>>, sales |-> <<>>]

-----------------------------------------------------------------------------
(* DataFrame.to_sql(rel, connection, if_exists="append", index=False) on   *)
(* an existing table.                                                      *)

\* The INSERT names the frame's columns; a table column the frame lacks
\* is stored as NULL, cell values are stored as they are.
InsertedRows(rel, df) ==
    [i \in 1..Len(df.rows) |->
        [c \in TableColumns(rel) |->
            IF c \in DOMAIN df.rows[i] THEN df.rows[i][c] ELSE NULL]]

\* The INSERT fails when the frame has a column the table does not have,
\* or when a key would occur twice in the table.
ToSqlSucceeds(rel, df, db) ==
    /\ DOMAIN df.dtypes \subseteq TableColumns(rel)
    /\ UniqueKeys(rel, db[rel] \o InsertedRows(rel, df))

ToSqlAppend(rel, df, db) ==
    [db EXCEPT ![rel] = db[rel] \o InsertedRows(rel, df)]

-----------------------------------------------------------------------------
(* Prepared data sets the loader may find in data/prepared, as             *)
(* pd.read_csv returns them, and the earlier contents of the warehouse.    *)

Cust(id, region) ==
    [CustomerID |-> id, Name |-> "name", Region |-> region,
     JoinDate |-> "2023-01-05", LoyaltyPoints |-> "80",
     PreferredContactMethod |-> "Email"]

Prod(id, category) ==
    [ProductID |-> id, ProductName |-> "product", Category |-> category,
     UnitPrice |-> "9.99", StockQuantity |-> "5", Supplier |-> "supplier"]

Sale(id, date, customer, product, amount, payment) ==
    [TransactionID |-> id, SaleDate |-> date, CustomerID |-> customer,
     ProductID |-> product, StoreID |-> "401", CampaignID |-> "0",
     SaleAmount |-> amount, DiscountPercent |-> "10",
     PaymentType |-> payment]

\* Column dtypes of the prepared files as pd.read_csv infers them (a date
\* column written by the preparation stage comes back as object).
CustomersDtypes ==
    [CustomerID |-> "int64", Name |-> "object", Region |-> "object",
     JoinDate |-> "object", LoyaltyPoints |-> "int64",
     PreferredContactMethod |-> "object"]

ProductsDtypes ==
    [ProductID |-> "int64", ProductName |-> "object", Category |-> "object",
     UnitPrice |-> "float64", StockQuantity |-> "int64",
     Supplier |-> "object"]

SalesDtypes ==
    [TransactionID |-> "int64", SaleDate |-> "object", CustomerID |-> "int64",
     ProductID |-> "int64", StoreID |-> "int64", CampaignID |-> "int64",
     SaleAmount |-> "float64", DiscountPercent |-> "int64",
     PaymentType |-> "object"]

Without(f, col) == [c \in DOMAIN f \ {col} |-> f[c]]
With(f, col, v) == [c \in DOMAIN f \cup {col} |-> IF c = col THEN v ELSE f[c]]

\* The frame without one column / with one column's cells and dtype
\* replaced (or the column added).
DropColumn(df, col) ==
    [dtypes |-> Without(df.dtypes, col),
     rows   |-> [i \in 1..Len(df.rows) |-> Without(df.rows[i], col)]]

SetColumn(df, col, dtype, cell) ==
    [dtypes |-> With(df.dtypes, col, dtype),
     rows   |-> [i \in 1..Len(df.rows) |-> With(df.rows[i], col, cell)]]

CustomersOk ==
    [dtypes |-> CustomersDtypes, rows |-> <<Cust(1, "East"), Cust(2, "West")>>]
ProductsOk ==
    [dtypes |-> ProductsDtypes,
     rows   |-> <<Prod(1, "Electronics"), Prod(2, "Clothing")>>]
SalesOk ==
    [dtypes |-> SalesDtypes,
     rows   |-> <<Sale(1, <<2024, 5, 3>>, 1, 1, 100, "Card"),
                  Sale(2, <<2024, 5, 20>>, 1, 1, 50, "Card"),
                  Sale(3, <<2024, 6, 1>>, 2, 2, 70, "Cash")>>]
\* Sales 3 and 4 name a customer, resp. a product, no prepared file holds.
SalesGap ==
    [dtypes |-> SalesDtypes,
     rows   |-> <<Sale(1, <<2024, 5, 3>>, 1, 1, 100, "Card"),
                  Sale(2, <<2024, 5, 20>>, 1, 1, 50, "Cash"),
                  Sale(3, <<2024, 6, 1>>, 9, 2, 70, "Cash"),
                  Sale(4, <<2024, 6, 2>>, 2, 9, 20, "Card")>>]

CustomersFiles ==
    {CustomersOk,
     DropColumn(CustomersOk, "Name"),
     SetColumn(CustomersOk, "LoyaltyPoints", "object", "many"),
     SetColumn(CustomersOk, "Unnamed: 0", "int64", "0")}
ProductsFiles ==
    {ProductsOk,
     DropColumn(ProductsOk, "Supplier"),
     SetColumn(ProductsOk, "Unnamed: 0", "int64", "0")}
SalesFiles ==
    {SalesOk,
     SalesGap,
     SetColumn(SalesOk, "DiscountPercent", "object", "ten"),
     SetColumn(SalesOk, "Unnamed: 0", "int64", "0")}

\* The column/type contract a valid prepared file of rel meets.
ExpectedDtypes(rel) ==
    CASE rel = "customers" -> CustomersDtypes
      [] rel = "products"  -> ProductsDtypes
      [] rel = "sales"     -> SalesDtypes

\* What a complete load of the frames dfs leaves in an emptied warehouse.
FullLoad(dfs) ==
    [rel \in Relations |-> InsertedRows(rel, Rename(RenameMap(rel), dfs[rel]))]

\* The warehouse an earlier pipeline run left behind.
OldDb ==
    FullLoad([customers |-> [dtypes |-> CustomersDtypes,
                             rows |-> <<Cust(3, "North")>>],
              products  |-> [dtypes |-> ProductsDtypes,
                             rows |-> <<Prod(3, "Sports")>>],
              sales     |-> [dtypes |-> SalesDtypes,
                             rows |-> <<Sale(7, <<2023, 1, 9>>, 3, 3, 30,
                                             "Cash")>>]])

\* No database file yet / tables created but empty / an earlier load.
InitialWarehouses ==
    {[dbFile |-> FALSE, tables |-> FALSE, db |-> EmptyDb],
     [dbFile |-> TRUE,  tables |-> TRUE,  db |-> EmptyDb],
     [dbFile |-> TRUE,  tables |-> TRUE,  db |-> OldDb]}

-----------------------------------------------------------------------------
VARIABLES
    schemaFile,   \* sql/dw_tables.sql exists
    csvPresent,   \* csvPresent[rel]: the prepared file of rel exists
    prepared,     \* prepared[rel]: the frame read_csv returns for rel
    dbFile,       \* data/dw/smart_sales.db exists
    tables,       \* the three relations exist in the database
    committed,    \* committed rows of each relation
    work,         \* rows as the loader's connection sees them
    pc,           \* position of load_data_to_db
    idx,          \* next statement of the delete / insert sequence
    loads,        \* calls of load_data_to_db started so far
    loadCall,     \* the current or last call: what failed, what the caller got
    preDb,        \* committed rows when the current or last load started
    deleteLog,    \* relations deleted from by the current or last load
    insertLog,    \* relations inserted into by the current or last load
    dbAfter,      \* dbAfter[n]: committed rows when the n-th load returned
    observed,     \* what the last read of another connection returned
    observedIn,   \* value of loads when it read
    cubeFile,     \* data/cube/sales_cube.csv
    cubeCall,     \* the last call of create_sales_cube
    cubeAfter,    \* cubeAfter[n]: the last cube call made after n loads
    cube_data,    \* the cube frame an analysis script holds in memory
    rollup,       \* the last rollup call: argument before/after, return
    rawFile,      \* the raw CSV file of a preparation script
    outputFile,   \* the prepared CSV file it writes
    prepCall      \* the last call of process_data

vars == <<schemaFile, csvPresent, prepared, dbFile, tables, committed, work,
          pc, idx, loads, loadCall, preDb, deleteLog, insertLog, dbAfter,
          observed, observedIn, cubeFile, cubeCall, cubeAfter,
          cube_data, rollup, rawFile, outputFile, prepCall>>

inputs == <<schemaFile, csvPresent, prepared>>
reader == <<observed, observedIn>>
cube   == <<cubeFile, cubeCall, cubeAfter>>
analysis == <<cube_data, rollup>>
prep   == <<rawFile, outputFile, prepCall>>

NoCall   == [failure |-> "none", result |-> "none"]
NoCube   == [status |-> "absent", rows |-> <<>>]

\* The dtypes read_csv infers for the columns of the cube file.
CubeDtypes ==
    [month |-> "object", region |-> "object", product_category |-> "object",
     payment_type |-> "object", total_sales |-> "float64",
     transaction_count |-> "int64"]

\* A frame is its columns' dtypes and its rows, in index order.
Frame(dtypes, rows) == [dtypes |-> dtypes, rows |-> rows]
EmptyFrame == Frame(CubeDtypes, <<>>)

NoRollup == [op |-> "none", before |-> EmptyFrame, after |-> EmptyFrame,
             ret |-> EmptyFrame, raised |-> FALSE]
NoRaw    == [script |-> "none", present |-> FALSE, frame |-> EmptyFrame]
NoOutput == [status |-> "absent", frame |-> EmptyFrame]
NoPrep   == [op |-> "none", checked |-> FALSE, frame |-> EmptyFrame,
             verified |-> FALSE, logged |-> "none", result |-> "none",
             before |-> NoOutput]

Init ==
    /\ schemaFile \in BOOLEAN
    /\ \E missing \in SUBSET Relations :
          /\ Cardinality(missing) <= 1
          /\ csvPresent = [rel \in Relations |-> rel \notin missing]
    /\ \E c \in CustomersFiles, p \in ProductsFiles, s \in SalesFiles :
          prepared = [customers |-> c, products |-> p, sales |-> s]
    /\ \E w \in InitialWarehouses :
          /\ dbFile = w.dbFile
          /\ tables = w.tables
          /\ committed = w.db
          /\ work = w.db
          /\ preDb = w.db
          /\ observed = w.db
    /\ pc = "idle"
    /\ idx = 1
    /\ loads = 0
    /\ loadCall = NoCall
    /\ deleteLog = <<>>
    /\ insertLog = <<>>
    /\ dbAfter = [n \in 1..MaxLoads |-> EmptyDb]
    /\ observedIn = 0
    /\ cubeFile = NoCube
    /\ cubeCall = NoCall
    /\ cubeAfter = [n \in 0..MaxLoads |-> NoCube]
    /\ cube_data = EmptyFrame
    /\ rollup = NoRollup
    /\ rawFile = NoRaw
    /\ outputFile = NoOutput
    /\ prepCall = NoPrep

-----------------------------------------------------------------------------
(* load_data_to_db                                                         *)

\* Variant: the products relation is not emptied.
DeleteOrderKeepsProducts == <<"customers", "sales">>

\* delete_existing_records: the DELETE statements, in this order.
DeleteOrder == <<"customers", "products", "sales">>

\* Variants: the call of insert_customers is missing / the fact relation
\* is loaded first.
LoadOrderNoCustomers == <<"products", "sales">>
LoadOrderFactsFirst == <<"sales", "customers", "products">>

\* The insert calls of load_data_to_db, in this order.
LoadOrder == <<"customers", "products", "sales">>

\* except Exception as e: print(...).  What the caller of load_data_to_db
\* gets when the exception exc reached the handler.
LoadExcept(exc) == "returned"

\* Variant: closing the connection keeps the statements not committed.
CloseCommits(durable, uncommitted) == uncommitted

\* conn.close() with statements not committed: they are discarded.
CloseConnection(durable, uncommitted) == durable

\* An exception exc leaves the try block: the handler prints it, then the
\* finally clause runs.
Raise(exc) ==
    /\ loadCall' = [failure |-> exc, result |-> "running"]
    /\ pc' = "finally"

\* Lines 132-139: connect, which creates the database file if needed.
connect ==
    /\ pc = "idle"
    /\ loads < MaxLoads
    /\ pc' = "schema"
    /\ loads' = loads + 1
    /\ dbFile' = TRUE
    /\ loadCall' = [failure |-> "none", result |-> "running"]
    /\ preDb' = committed
    /\ deleteLog' = <<>>
    /\ insertLog' = <<>>
    /\ idx' = 1
    /\ UNCHANGED <<inputs, analysis, prep,
                   tables, committed, work, dbAfter, reader, cube>>

\* Variant: a missing schema file is reported and the load goes on.
create_schema_ignores_missing_file ==
    /\ pc = "schema"
    /\ tables' = tables
    /\ pc' = "delete"
    /\ UNCHANGED <<inputs, analysis, prep,
                   dbFile, committed, work, idx, loads, loadCall, preDb,
                   deleteLog, insertLog, dbAfter, reader, cube>>

\* The script creates the relations that do not exist yet and leaves
\* existing ones alone.
SchemaScript(exists) == TRUE

create_schema_from_file ==
    /\ pc = "schema"
    /\ IF schemaFile
         THEN /\ tables' = SchemaScript(tables)
              /\ pc' = "delete"
              /\ UNCHANGED loadCall
         ELSE /\ Raise("schema")
              /\ UNCHANGED tables
    /\ UNCHANGED <<inputs, analysis, prep,
                   dbFile, committed, work, idx, loads, preDb,
                   deleteLog, insertLog, dbAfter, reader, cube>>

\* One DELETE FROM statement: it runs in the connection's open
\* transaction and is not committed.
delete_existing_records ==
    /\ pc = "delete"
    /\ LET rel == DeleteOrder[idx] IN
          /\ work' = [work EXCEPT ![rel] = <<>>]
          /\ deleteLog' = Append(deleteLog, rel)
    /\ IF idx < Len(DeleteOrder)
         THEN idx' = idx + 1 /\ pc' = pc
         ELSE idx' = 1 /\ pc' = "read"
    /\ UNCHANGED <<inputs, analysis, prep,
                   dbFile, tables, committed, loads, loadCall, preDb,
                   insertLog, dbAfter, reader, cube>>

\* The three pd.read_csv calls.
read_csv ==
    /\ pc = "read"
    /\ IF \A rel \in Relations : csvPresent[rel]
         THEN pc' = "insert" /\ UNCHANGED loadCall
         ELSE Raise("read")
    /\ UNCHANGED <<inputs, analysis, prep,
                   dbFile, tables, committed, work, idx, loads, preDb,
                   deleteLog, insertLog, dbAfter, reader, cube>>

\* insert_customers / insert_products / insert_sales: rename, then to_sql.
\* to_sql runs its INSERT in pandas' run_transaction, which commits the
\* connection when the INSERT succeeded and rolls it back when it raised.
Insert(rel) ==
    /\ pc = "insert"
    /\ LoadOrder[idx] = rel
    /\ LET df == Rename(RenameMap(rel), prepared[rel]) IN
         IF ToSqlSucceeds(rel, df, work)
           THEN /\ work' = ToSqlAppend(rel, df, work)
                /\ committed' = work'
                /\ insertLog' = Append(insertLog, rel)
                /\ IF idx < Len(LoadOrder)
                     THEN idx' = idx + 1 /\ pc' = pc
                     ELSE idx' = 1 /\ pc' = "commit"
                /\ UNCHANGED loadCall
           ELSE /\ work' = committed
                /\ Raise(rel)
                /\ UNCHANGED <<committed, insertLog, idx>>
    /\ UNCHANGED <<inputs, analysis, prep,
                   dbFile, tables, loads, preDb, deleteLog, dbAfter,
                   reader, cube>>

insert_customers == Insert("customers")
insert_products  == Insert("products")
insert_sales     == Insert("sales")

\* conn.commit() and the success message.
commit ==
    /\ pc = "commit"
    /\ committed' = work
    /\ pc' = "finally"
    /\ UNCHANGED <<inputs, analysis, prep,
                   dbFile, tables, work, idx, loads, loadCall, preDb,
                   deleteLog, insertLog, dbAfter, reader, cube>>

\* finally: conn.close(); load_data_to_db is over and its caller gets the
\* outcome.
close ==
    /\ pc = "finally"
    /\ committed' = CloseConnection(committed, work)
    /\ work' = committed'
    /\ dbAfter' = [dbAfter EXCEPT ![loads] = committed']
    /\ loadCall' = [loadCall EXCEPT !.result =
                        IF loadCall.failure = "none"
                          THEN "returned"
                          ELSE LoadExcept(loadCall.failure)]
    /\ pc' = "idle"
    /\ UNCHANGED <<inputs, analysis, prep,
                   dbFile, tables, idx, loads, preDb, deleteLog,
                   insertLog, reader, cube>>

\* Another connection reads the three relations while the loader runs or
\* rests: it sees the committed rows.
Read ==
    /\ tables
    /\ observed' = committed
    /\ observedIn' = loads
    /\ UNCHANGED <<inputs, analysis, prep,
                   dbFile, tables, committed, work, pc, idx, loads,
                   loadCall, preDb, deleteLog, insertLog, dbAfter, cube>>

-----------------------------------------------------------------------------
(* create_sales_cube                                                       *)

\* strftime('%Y-%m', sale_date)
strftime_Ym(date) == <<date[1], date[2]>>

\* Variant: the join condition is dropped.
MatchingAny(rows, col, v) == rows

Matching(rows, col, v) == SelectSeq(rows, LAMBDA r : r[col] = v)

\* One sales row joined to every customers row and every products row
\* with its keys (FROM sales s JOIN customers c ... JOIN products p ...).
JoinSale(s, db) ==
    LET cs == Matching(db.customers, "customer_id", s.customer_id)
        ps == Matching(db.products, "product_id", s.product_id)
    IN  [n \in 1..(Len(cs) * Len(ps)) |->
            LET c == cs[((n - 1) \div Len(ps)) + 1]
                p == ps[((n - 1) % Len(ps)) + 1]
            IN  [month            |-> strftime_Ym(s.sale_date),
                 region           |-> c.region,
                 product_category |-> p.category,
                 payment_type     |-> s.payment_type,
                 sale_amount      |-> s.sale_amount]]

RECURSIVE Join(_, _)
Join(sales, db) ==
    IF sales = <<>> THEN <<>>
    ELSE JoinSale(Head(sales), db) \o Join(Tail(sales), db)

\* Variant: payment_type is left out of the GROUP BY.
GroupKeyNoPayment(r) ==
    <<r.month, r.region, r.product_category>>

\* GROUP BY month, c.region, p.category, s.payment_type
GroupKey(r) ==
    <<r.month, r.region, r.product_category, r.payment_type>>

\* SUM(s.sale_amount), COUNT(*) per group: each joined row is added to the
\* group of its key, or opens that group.
RECURSIVE Aggregate(_, _)
Aggregate(joined, groups) ==
    IF joined = <<>> THEN groups
    ELSE LET j == Head(joined)
             hit == {n \in 1..Len(groups) : GroupKey(groups[n]) = GroupKey(j)}
         IN  IF hit = {}
               THEN Aggregate(Tail(joined),
                      Append(groups,
                        [month             |-> j.month,
                         region            |-> j.region,
                         product_category  |-> j.product_category,
                         payment_type      |-> j.payment_type,
                         total_sales       |-> j.sale_amount,
                         transaction_count |-> 1]))
               ELSE LET n == CHOOSE n \in hit : TRUE IN
                    Aggregate(Tail(joined),
                      [groups EXCEPT
                         ![n].total_sales = @ + j.sale_amount,
                         ![n].transaction_count = @ + 1])

CubeQuery(db) == Aggregate(Join(db.sales, db), <<>>)

\* The except clauses of create_sales_cube log and print.  What its
\* caller gets when the exception exc reached them.
CubeExcept(exc) == "returned"

\* The whole of create_sales_cube; the pipeline runs it between loads.
create_sales_cube ==
    /\ pc = "idle"
    /\ LET exc == IF ~dbFile THEN "db_missing"
                  ELSE IF ~tables THEN "query"
                  ELSE "none"
       IN  IF exc = "none"
             THEN /\ cubeFile' = [status |-> "written",
                                  rows   |-> CubeQuery(committed)]
                  /\ cubeCall' = [failure |-> "none", result |-> "returned"]
                  /\ cubeAfter' = [cubeAfter EXCEPT ![loads] = cubeFile']
             ELSE /\ cubeCall' = [failure |-> exc, result |-> CubeExcept(exc)]
                  /\ cubeAfter' = [cubeAfter EXCEPT ![loads] =
                                      [status |-> "failed", rows |-> <<>>]]
                  /\ UNCHANGED cubeFile
    /\ UNCHANGED <<inputs, analysis, prep,
                   dbFile, tables, committed, work, pc, idx, loads,
                   loadCall, preDb, deleteLog, insertLog, dbAfter, reader>>

-----------------------------------------------------------------------------
Next ==
    \/ connect
    \/ create_schema_from_file
    \/ delete_existing_records
    \/ read_csv
    \/ insert_customers
    \/ insert_products
    \/ insert_sales
    \/ commit
    \/ close
    \/ Read
    \/ create_sales_cube

Spec == Init /\ [][Next]_vars

-----------------------------------------------------------------------------
(* Properties                                                              *)

\* load_data_to_db has returned at least once and is not running.
LoadReturned == pc = "idle" /\ loads >= 1

LoadSucceeded == LoadReturned /\ loadCall.failure = "none"

Range(seq) == {seq[i] : i \in 1..Len(seq)}

SomeCsvMissing == \E rel \in Relations : ~csvPresent[rel]

\* C1: the deletes and the three inserts of a load are one atomic unit: a
\* load that failed leaves the committed rows as they were before it, and
\* what a load leaves is never a part of the load.
C1_LoadIsAtomic ==
    /\ (LoadReturned /\ loadCall.failure # "none") => committed = preDb
    /\ LoadReturned => committed \in {preDb, FullLoad(prepared)}

\* C2: when one of the three prepared files is missing, no insert is
\* executed and the committed rows stay those from before the load, the
\* load's DELETE statements notwithstanding.
C2_MissingFileAborts ==
    (loads >= 1 /\ SomeCsvMissing) =>
        /\ insertLog = <<>>
        /\ committed = preDb

C2_Witness ==
    /\ LoadReturned
    /\ SomeCsvMissing
    /\ loadCall.failure = "read"
    /\ deleteLog = <<"customers", "products", "sales">>
    /\ preDb = OldDb
    /\ committed = OldDb

\* C3: a prepared data set that lacks an expected column or has a column
\* of another type makes the load abort with no row of it written to its
\* relation.  (That an aborted load commits nothing is C1.)
C3_ContractRechecked ==
    \A rel \in Relations :
        (LoadReturned /\ prepared[rel].dtypes # ExpectedDtypes(rel)) =>
            /\ loadCall.failure # "none"
            /\ rel \notin Range(insertLog)

\* C4: a failure inside load_data_to_db or create_sales_cube reaches the
\* caller of that stage as a failure.
C4_FailuresSurfaced ==
    /\ (LoadReturned /\ loadCall.failure # "none") => loadCall.result = "raised"
    /\ cubeCall.failure # "none" => cubeCall.result = "raised"

\* C5: what another connection reads since a load started is the complete
\* state from before that load or the complete state after it.
C5_ReaderSeesWholeLoads ==
    (loads >= 1 /\ observedIn = loads) =>
        observed \in {preDb, FullLoad(prepared)}

\* Loads that have returned so far.
Completed == IF pc = "idle" THEN loads ELSE loads - 1

\* C6: every further load of the same prepared files leaves the rows the
\* first load left, and the cube built after it is the cube built after
\* the first.
C6_ReloadIdempotent ==
    \A n \in 2..Completed :
        /\ dbAfter[n] = dbAfter[1]
        /\ (cubeAfter[1].status # "absent" /\ cubeAfter[n].status # "absent")
              => cubeAfter[n] = cubeAfter[1]

C6_Witness ==
    /\ pc = "idle" /\ loads = 2
    /\ observed = OldDb /\ observedIn = 0
    /\ loadCall.failure = "none"
    /\ dbAfter[1] = FullLoad(prepared)
    /\ Len(dbAfter[2].sales) = 3
    /\ cubeAfter[1].status = "written"
    /\ cubeAfter[2].status = "written"
    /\ Len(cubeAfter[2].rows) = 2

\* Every sale of the prepared sales file names a customer and a product of
\* the prepared dimension files.
PreparedRefsResolve ==
    \A s \in Range(prepared.sales.rows) :
        /\ \E c \in Range(prepared.customers.rows) : c.CustomerID = s.CustomerID
        /\ \E p \in Range(prepared.products.rows) : p.ProductID = s.ProductID

RefsResolve(db) ==
    \A s \in Range(db.sales) :
        /\ \E c \in Range(db.customers) : c.customer_id = s.customer_id
        /\ \E p \in Range(db.products) : p.product_id = s.product_id

\* C7: after a successful load of prepared files whose sales all name
\* prepared customers and products, every sales row of the warehouse names
\* a customers row and a products row of the warehouse.
C7_ReferentialIntegrity ==
    (LoadSucceeded /\ PreparedRefsResolve) => RefsResolve(committed)

C7_Witness ==
    /\ LoadSucceeded
    /\ PreparedRefsResolve
    /\ preDb = OldDb
    /\ Len(committed.sales) = 3
    /\ RefsResolve(committed)

\* C8: the inserts of a load happen in the order customers, products,
\* sales, and when sales is inserted into the rows of both dimension files
\* are in the warehouse.
C8_DimensionsBeforeFacts ==
    /\ Len(insertLog) <= 3
    /\ insertLog = SubSeq(<<"customers", "products", "sales">>, 1, Len(insertLog))
    /\ "sales" \in Range(insertLog) =>
          /\ committed.customers = FullLoad(prepared).customers
          /\ committed.products = FullLoad(prepared).products

C8_Witness ==
    /\ insertLog = <<"customers", "products", "sales">>
    /\ Len(committed.sales) > 0
    /\ Len(committed.customers) > 0
    /\ Len(committed.products) > 0

RECURSIVE SumOf(_, _)
SumOf(rows, col) ==
    IF rows = <<>> THEN 0 ELSE Head(rows)[col] + SumOf(Tail(rows), col)

Resolves(s, db) ==
    /\ \E c \in Range(db.customers) : c.customer_id = s.customer_id
    /\ \E p \in Range(db.products) : p.product_id = s.product_id

\* The sales rows whose customer and product exist.
ResolvedSales(db) == SelectSeq(db.sales, LAMBDA s : Resolves(s, db))

Conserves(cubeRows, db) ==
    /\ SumOf(cubeRows, "total_sales") = SumOf(ResolvedSales(db), "sale_amount")
    /\ SumOf(cubeRows, "transaction_count") = Len(ResolvedSales(db))

\* The cube file was written since the last load returned.
CubeFresh ==
    /\ pc = "idle"
    /\ cubeAfter[loads].status = "written"

\* C9: the total_sales of all cube rows add up to the sale_amount of the
\* sales rows whose customer and product exist, the transaction_count to
\* their number, whatever the warehouse holds; a sales row whose customer
\* or product does not exist is left out without an error.
C9_AggregationConservation ==
    /\ Conserves(CubeQuery(committed), committed)
    /\ CubeFresh =>
          /\ cubeFile = cubeAfter[loads]
          /\ Conserves(cubeFile.rows, committed)
          /\ cubeCall.failure = "none"

C9_Witness ==
    /\ CubeFresh
    /\ Len(committed.sales) = 4
    /\ Len(ResolvedSales(committed)) = 2
    /\ SumOf(cubeFile.rows, "total_sales") = 150
    /\ SumOf(cubeFile.rows, "transaction_count") = 2

\* The (month, region, product_category, payment_type) of every sales row
\* joined to a customers row and a products row.
JoinedTuples(db) ==
    {<<strftime_Ym(s.sale_date), c.region, p.category, s.payment_type>> :
        <<s, c, p>> \in
            {t \in Range(db.sales) \X Range(db.customers) \X Range(db.products) :
                /\ t[1].customer_id = t[2].customer_id
                /\ t[1].product_id = t[3].product_id}}

CubeTuple(r) == <<r.month, r.region, r.product_category, r.payment_type>>

OneRowPerTuple(cubeRows, db) ==
    /\ \A i, j \in 1..Len(cubeRows) :
          CubeTuple(cubeRows[i]) = CubeTuple(cubeRows[j]) => i = j
    /\ {CubeTuple(r) : r \in Range(cubeRows)} = JoinedTuples(db)

\* C10: the cube has one row for every (month, region, product_category,
\* payment_type) of the joined sales rows, no two rows with the same
\* tuple, and no row with another tuple.
C10_OneRowPerTuple ==
    /\ OneRowPerTuple(CubeQuery(committed), committed)
    /\ CubeFresh => OneRowPerTuple(cubeFile.rows, committed)

C10_Witness ==
    /\ CubeFresh
    /\ Len(cubeFile.rows) = 2
    /\ \E i \in 1..Len(cubeFile.rows) : cubeFile.rows[i].transaction_count = 2
    /\ \E i, j \in 1..Len(cubeFile.rows) :
          /\ cubeFile.rows[i].payment_type # cubeFile.rows[j].payment_type
          /\ cubeFile.rows[i].month # cubeFile.rows[j].month

\* C14: create_sales_cube fails and writes no cube file when there is no
\* database or when sales is empty; a cube file never has zero rows.
C14_CubeNeedsData ==
    /\ cubeFile.status = "written" => Len(cubeFile.rows) > 0
    /\ (pc = "idle" /\ cubeAfter[loads].status # "absent"
           /\ (~dbFile \/ committed.sales = <<>>))
          => cubeAfter[loads].status = "failed"

\* C15: when the schema file is missing the load stops in
\* create_schema_from_file: it reaches no DELETE, no read_csv and no
\* insert, and the rows of the warehouse are those from before the load.
C15_MissingSchemaAborts ==
    (loads >= 1 /\ ~schemaFile) =>
        /\ pc \in {"schema", "finally", "idle"}
        /\ loadCall.failure \in {"none", "schema"}
        /\ deleteLog = <<>>
        /\ insertLog = <<>>
        /\ work = preDb
        /\ committed = preDb

C15_Witness ==
    /\ LoadReturned
    /\ ~schemaFile
    /\ \A rel \in Relations : csvPresent[rel]
    /\ loadCall.failure = "schema"
    /\ preDb = OldDb
    /\ committed = OldDb

\* C16: the load deletes sales before customers and products: while it
\* deletes, every sales row the connection still sees names a customers
\* row and a products row it still sees, if it named one before the load.
C16_FactsDeletedFirst ==
    pc = "delete" =>
        \A s \in Range(work.sales) :
            /\ (\E c \in Range(preDb.customers) : c.customer_id = s.customer_id)
                  => \E c \in Range(work.customers) : c.customer_id = s.customer_id
            /\ (\E q \in Range(preDb.products) : q.product_id = s.product_id)
                  => \E q \in Range(work.products) : q.product_id = s.product_id

-----------------------------------------------------------------------------
(* The rollups of the OLAP goal scripts                                    *)

MaxCubeRows == 3

\* The text cells of the cube frames, in the order Python compares strings.
StringsInOrder == <<"Card", "Cash", "Cat1", "Cat2", "RegionA", "RegionB">>
StrIndex(s) == CHOOSE i \in 1..Len(StringsInOrder) : StringsInOrder[i] = s
StrLess(a, b) == StrIndex(a) < StrIndex(b)

\* A month cell is <<year, month>> as the cube file has it ("2024-06") or
\* the Timestamp <<year, month, day>> pd.to_datetime makes of it.
Day(t) == IF Len(t) = 3 THEN t[3] ELSE 1
to_datetime(cell) == <<cell[1], cell[2], Day(cell)>>

TsLess(a, b) ==
    \/ a[1] < b[1]
    \/ a[1] = b[1] /\ a[2] < b[2]
    \/ a[1] = b[1] /\ a[2] = b[2] /\ Day(a) < Day(b)

\* t - pd.DateOffset(years=1); every Timestamp here is a first of a month.
DateOffsetYears(t, years) == <<t[1] - years, t[2], t[3]>>

\* cube_data["month"] = pd.to_datetime(cube_data["month"])
ConvertMonth(df) ==
    Frame([df.dtypes EXCEPT !["month"] = "datetime64[ns]"],
          [i \in 1..Len(df.rows) |->
              [df.rows[i] EXCEPT !["month"] = to_datetime(@)]])

\* cube_data["month"].max(): NaT (no Timestamp) for a frame without rows.
NaT == <<>>
MaxMonth(rows) ==
    IF rows = <<>> THEN NaT
    ELSE LET ms == {rows[i].month : i \in 1..Len(rows)}
         IN  CHOOSE t \in ms : \A o \in ms : ~TsLess(t, o)

\* Variant: the boundary month is kept.
KeepMonthInclusive(month, last_year) ==
    last_year # NaT /\ ~TsLess(month, last_year)

\* cube_data["month"] > last_year; a comparison with NaT is False.
KeepMonth(month, last_year) ==
    last_year # NaT /\ TsLess(last_year, month)

\* What a rollup does: the argument frame after the call, and the frame
\* returned (the argument itself where the call raised).
Outcome(arg, ret, raised) == [arg |-> arg, ret |-> ret, raised |-> raised]

FilterLastYearData(df) ==
    LET converted == ConvertMonth(df)
        latest    == MaxMonth(converted.rows)
        last_year == IF latest = NaT THEN NaT ELSE DateOffsetYears(latest, 1)
    IN  Outcome(converted,
                Frame(converted.dtypes,
                      SelectSeq(converted.rows,
                                LAMBDA r : KeepMonth(r.month, last_year))),
                FALSE)

\* cube_data["year"] = cube_data["month"].dt.year; return cube_data
AddYearColumn(df) ==
    LET converted == ConvertMonth(df)
        withYear  == Frame(With(converted.dtypes, "year", "int32"),
                           [i \in 1..Len(converted.rows) |->
                               With(converted.rows[i], "year",
                                    converted.rows[i].month[1])])
    IN  Outcome(withYear, withYear, FALSE)

\* groupby(cols).agg(sum of sums).reset_index(): one row per key, the keys
\* in sorted order.
KeyOf(r, cols) == [i \in 1..Len(cols) |-> r[cols[i]]]

ValueLess(col, a, b) ==
    CASE col = "month" -> TsLess(a, b)
      [] col = "year"  -> a < b
      [] OTHER         -> StrLess(a, b)

KeyLess(cols, k1, k2) ==
    \E i \in 1..Len(cols) :
        /\ \A j \in 1..(i - 1) : k1[j] = k2[j]
        /\ ValueLess(cols[i], k1[i], k2[i])

RECURSIVE SortKeys(_, _)
SortKeys(cols, keys) ==
    IF keys = {} THEN <<>>
    ELSE LET least == CHOOSE k \in keys :
                          \A o \in keys \ {k} : KeyLess(cols, k, o)
         IN  <<least>> \o SortKeys(cols, keys \ {least})

RECURSIVE SumColumn(_, _)
SumColumn(rows, col) ==
    IF rows = <<>> THEN 0 ELSE Head(rows)[col] + SumColumn(Tail(rows), col)

Position(cols, col) == CHOOSE i \in 1..Len(cols) : cols[i] = col

GroupBySum(df, cols, sums) ==
    LET keys == SortKeys(cols, {KeyOf(df.rows[i], cols) : i \in 1..Len(df.rows)})
        names == {cols[i] : i \in 1..Len(cols)} \cup sums
    IN  Frame([c \in names |-> df.dtypes[c]],
              [n \in 1..Len(keys) |->
                  LET group == SelectSeq(df.rows,
                                         LAMBDA r : KeyOf(r, cols) = keys[n])
                  IN  [c \in names |->
                          IF c \in sums THEN SumColumn(group, c)
                          ELSE keys[n][Position(cols, c)]]])

\* A rollup that groups: KeyError where the frame lacks a grouping column.
GroupRollup(df, cols, sums) ==
    IF \E i \in 1..Len(cols) : cols[i] \notin DOMAIN df.dtypes
      THEN Outcome(df, df, TRUE)
      ELSE Outcome(df, GroupBySum(df, cols, sums), FALSE)

GroupByYear(df) == GroupRollup(df, <<"year">>, {"total_sales"})
GroupByMonth(df) == GroupRollup(df, <<"month">>, {"total_sales"})
GroupByPaymentType(df) ==
    GroupRollup(df, <<"payment_type">>, {"total_sales", "transaction_count"})

\* The rows of one region in the grouped frame, by index.
RegionIndex(rows, region) == {i \in 1..Len(rows) : rows[i].region = region}

\* Variant: the least total of the region.
IdxMin(rows, region) ==
    CHOOSE i \in RegionIndex(rows, region) :
        \A j \in RegionIndex(rows, region) :
            /\ rows[i].total_sales <= rows[j].total_sales
            /\ j < i => rows[i].total_sales < rows[j].total_sales

\* Variant: of equal totals the last one.
IdxMaxLast(rows, region) ==
    CHOOSE i \in RegionIndex(rows, region) :
        \A j \in RegionIndex(rows, region) :
            /\ rows[j].total_sales <= rows[i].total_sales
            /\ j > i => rows[j].total_sales < rows[i].total_sales

\* groupby("region")["total_sales"].idxmax(): the index of the first
\* occurrence of the region's greatest total.
IdxMax(rows, region) ==
    CHOOSE i \in RegionIndex(rows, region) :
        \A j \in RegionIndex(rows, region) :
            /\ rows[j].total_sales <= rows[i].total_sales
            /\ j < i => rows[j].total_sales < rows[i].total_sales

GetTopCategoriesByRegion(df) ==
    LET grouped == GroupBySum(df, <<"region", "product_category">>,
                              {"total_sales"})
        regions == SortKeys(<<"region">>,
                       {<<grouped.rows[i].region>> : i \in 1..Len(grouped.rows)})
    IN  Outcome(df,
                Frame(grouped.dtypes,
                      [n \in 1..Len(regions) |->
                          grouped.rows[IdxMax(grouped.rows, regions[n][1])]]),
                FALSE)

\* The cube files the analysis scripts are run on.
Regions    == {"RegionA", "RegionB"}
Categories == {"Cat1", "Cat2"}
Payments   == {"Card", "Cash"}
Totals     == {50, 100, 150}

CubeRow(month, region, category, payment, total, count) ==
    [month |-> month, region |-> region, product_category |-> category,
     payment_type |-> payment, total_sales |-> total,
     transaction_count |-> count]

\* One row, or one row per payment type, for every month of a set.
MonthRows(months, payments) ==
    LET keys == SortKeys(<<"month", "payment_type">>, months \X payments)
    IN  [n \in 1..Len(keys) |->
            CubeRow(keys[n][1], "RegionA", "Cat1", keys[n][2], 100, 1)]

MonthPool ==
    {<<2023, 5>>, <<2023, 6>>, <<2023, 7>>, <<2024, 5>>, <<2024, 6>>, <<2024, 7>>}
EighteenMonths ==
    {<<2023, m>> : m \in 1..12} \cup {<<2024, m>> : m \in 1..6}

MonthFiles ==
    {MonthRows(months, payments) :
        months \in (SUBSET MonthPool) \cup {EighteenMonths},
        payments \in {{"Card"}, Payments}}

\* Up to MaxCubeRows rows of one month, each with its own tuple and total.
TupleRows(tuples, total) ==
    LET keys == SortKeys(<<"region", "product_category", "payment_type">>,
                         tuples)
    IN  [n \in 1..Len(keys) |->
            CubeRow(<<2024, 6>>, keys[n][1], keys[n][2], keys[n][3],
                    total[keys[n]], 1)]

Reversed(rows) == [n \in 1..Len(rows) |-> rows[Len(rows) + 1 - n]]

\* The SQL of the cube leaves the order of its rows open: the rows in
\* the order of their tuples, and in the reverse of it.
TupleFiles ==
    UNION {{TupleRows(tuples, total) : total \in [tuples -> Totals]} :
             tuples \in {t \in SUBSET (Regions \X Categories \X Payments) :
                            Cardinality(t) <= MaxCubeRows}}

ExampleFile ==
    <<CubeRow(<<2024, 6>>, "RegionA", "Cat1", "Card", 100, 1),
      CubeRow(<<2024, 6>>, "RegionA", "Cat2", "Card", 150, 1),
      CubeRow(<<2024, 6>>, "RegionB", "Cat1", "Card", 80, 1)>>

CubeFiles ==
    MonthFiles \cup TupleFiles \cup {Reversed(rows) : rows \in TupleFiles}
        \cup {ExampleFile}

\* The loader at rest, while an analysis or a preparation script runs.
loader == <<dbFile, tables, committed, work, pc, idx, loads, loadCall, preDb,
            deleteLog, insertLog, dbAfter>>

LoaderAtRest ==
    /\ schemaFile = TRUE
    /\ csvPresent = [rel \in Relations |-> TRUE]
    /\ prepared = [customers |-> CustomersOk, products |-> ProductsOk,
                   sales |-> SalesOk]
    /\ dbFile = TRUE
    /\ tables = TRUE
    /\ committed = OldDb
    /\ work = OldDb
    /\ preDb = OldDb
    /\ observed = OldDb
    /\ pc = "idle"
    /\ idx = 1
    /\ loads = 0
    /\ loadCall = NoCall
    /\ deleteLog = <<>>
    /\ insertLog = <<>>
    /\ dbAfter = [n \in 1..MaxLoads |-> EmptyDb]
    /\ observedIn = 0
    /\ cubeCall = NoCall
    /\ cubeAfter = [n \in 0..MaxLoads |-> NoCube]

RollupInit ==
    /\ LoaderAtRest
    /\ \E rows \in CubeFiles : cubeFile = [status |-> "written", rows |-> rows]
    /\ cube_data = EmptyFrame
    /\ rollup = NoRollup
    /\ rawFile = NoRaw
    /\ outputFile = NoOutput
    /\ prepCall = NoPrep

\* main() of the scripts: cube_data = load_cube_data(CUBE_PATH)
load_cube_data ==
    /\ cubeFile.status = "written"
    /\ cube_data' = Frame(CubeDtypes, cubeFile.rows)
    /\ rollup' = [NoRollup EXCEPT !.op = "load_cube_data", !.ret = cube_data']
    /\ UNCHANGED <<inputs, loader, reader, cube, prep>>

\* A rollup called on cube_data: the frame is the caller's own object, so
\* what the call did to its argument is what cube_data is afterwards.
OnCubeData(op, out) ==
    /\ rollup.op # "none"
    /\ rollup' = [op |-> op, before |-> cube_data, after |-> out.arg,
                  ret |-> out.ret, raised |-> out.raised]
    /\ cube_data' = out.arg
    /\ UNCHANGED <<inputs, loader, reader, cube, prep>>

\* A rollup called on filtered_data, the frame filter_last_year_data
\* returned.
OnFilteredData(op, out) ==
    /\ rollup.op = "filter_last_year_data"
    /\ rollup' = [op |-> op, before |-> rollup.ret, after |-> out.arg,
                  ret |-> out.ret, raised |-> out.raised]
    /\ UNCHANGED <<inputs, loader, reader, cube, prep, cube_data>>

add_year_column == OnCubeData("add_year_column", AddYearColumn(cube_data))

group_by_year == OnCubeData("group_by_year", GroupByYear(cube_data))

group_by_month == OnCubeData("group_by_month", GroupByMonth(cube_data))

filter_last_year_data ==
    OnCubeData("filter_last_year_data", FilterLastYearData(cube_data))

group_by_payment_type ==
    OnFilteredData("group_by_payment_type", GroupByPaymentType(rollup.ret))

get_top_categories_by_region ==
    OnFilteredData("get_top_categories_by_region",
                   GetTopCategoriesByRegion(rollup.ret))

RollupNext ==
    \/ load_cube_data
    \/ add_year_column
    \/ group_by_year
    \/ group_by_month
    \/ filter_last_year_data
    \/ group_by_payment_type
    \/ get_top_categories_by_region

RollupSpec == RollupInit /\ [][RollupNext]_vars

\* The months of a frame as <<year, month>>, and a month counted in months.
YearMonth(cell) == <<cell[1], cell[2]>>
MonthsIn(df) == {YearMonth(df.rows[i].month) : i \in 1..Len(df.rows)}
MonthNumber(ym) == ym[1] * 12 + ym[2]
SameButMonth(r, s) ==
    /\ YearMonth(r.month) = YearMonth(s.month)
    /\ Without(r, "month") = Without(s, "month")

Filtered == rollup.op = "filter_last_year_data"

\* C11: filter_last_year_data keeps exactly the rows whose month is strictly
\* later than the latest month of its input minus 12 months, each once and
\* in the input's order: the month 12 months before the latest is dropped,
\* every later month is kept, and of the months 2023-01 to 2024-06 it keeps
\* 2023-07 to 2024-06.
C11_StrictLastYear ==
    Filtered =>
        LET input  == rollup.before.rows
            output == rollup.ret.rows
            kept   == {i \in 1..Len(input) :
                          \A j \in 1..Len(input) :
                              MonthNumber(YearMonth(input[i].month))
                                  > MonthNumber(YearMonth(input[j].month)) - 12}
        IN  /\ ~rollup.raised
            /\ Len(output) = Cardinality(kept)
            /\ \A n \in 1..Len(output) :
                  \E i \in kept :
                      /\ SameButMonth(output[n], input[i])
                      /\ Cardinality({k \in kept : k < i}) = n - 1
            /\ MonthsIn(rollup.before) = EighteenMonths
                  => MonthsIn(rollup.ret)
                        = {<<2023, m>> : m \in 7..12} \cup {<<2024, m>> : m \in 1..6}

\* The input has the latest month, the month 12 months before it, and the
\* month after that one.
C11_Witness ==
    /\ Filtered
    /\ {<<2023, 6>>, <<2023, 7>>, <<2024, 6>>} \subseteq MonthsIn(rollup.before)
    /\ <<2024, 7>> \notin MonthsIn(rollup.before)
    /\ <<2023, 6>> \notin MonthsIn(rollup.ret)
    /\ <<2023, 7>> \in MonthsIn(rollup.ret)

TopCalled == rollup.op = "get_top_categories_by_region"

\* The total_sales of the rows of one (region, category) pair, summed.
PairTotal(rows, region, category) ==
    SumOf(SelectSeq(rows, LAMBDA r : /\ r.region = region
                                     /\ r.product_category = category),
          "total_sales")

RegionsIn(rows) == {rows[i].region : i \in 1..Len(rows)}
CategoriesIn(rows, region) ==
    {rows[i].product_category :
        i \in {j \in 1..Len(rows) : rows[j].region = region}}

\* region, category and total of every row, by index.
Triples(rows) ==
    [i \in 1..Len(rows) |->
        <<rows[i].region, rows[i].product_category, rows[i].total_sales>>]

ExampleRows ==
    <<<<"RegionA", "Cat1", 100>>, <<"RegionA", "Cat2", 150>>,
      <<"RegionB", "Cat1", 80>>>>

\* C12: get_top_categories_by_region returns one row for every region of
\* its input and no other row; the row's category is one of the region's
\* whose summed total_sales no other category of the region exceeds, and
\* the row's total_sales is that sum.  (RegionA, Cat1, 100), (RegionA,
\* Cat2, 150), (RegionB, Cat1, 80) give RegionA -> Cat2 (150) and
\* RegionB -> Cat1 (80).
C12_TopCategoryPerRegion ==
    TopCalled =>
        LET input  == rollup.before.rows
            output == rollup.ret.rows
        IN  /\ ~rollup.raised
            /\ RegionsIn(output) = RegionsIn(input)
            /\ \A g \in RegionsIn(input) :
                  Cardinality({n \in 1..Len(output) : output[n].region = g}) = 1
            /\ \A n \in 1..Len(output) :
                  LET g == output[n].region IN
                  /\ output[n].product_category \in CategoriesIn(input, g)
                  /\ output[n].total_sales
                        = PairTotal(input, g, output[n].product_category)
                  /\ \A c \in CategoriesIn(input, g) :
                        PairTotal(input, g, c) <= output[n].total_sales
            /\ Triples(input) = ExampleRows
                  => Range(Triples(output))
                        = {<<"RegionA", "Cat2", 150>>, <<"RegionB", "Cat1", 80>>}

\* A region with two categories whose totals differ, the greater one
\* summed from two rows.
C12_Witness ==
    /\ TopCalled
    /\ \E n \in 1..Len(rollup.ret.rows) :
          LET o == rollup.ret.rows[n] IN
          /\ CategoriesIn(rollup.before.rows, o.region) = Categories
          /\ \E c \in Categories :
                PairTotal(rollup.before.rows, o.region, c) < o.total_sales
          /\ \A i \in 1..Len(rollup.before.rows) :
                rollup.before.rows[i].total_sales < o.total_sales

RollupOps ==
    {"add_year_column", "group_by_year", "group_by_month",
     "filter_last_year_data", "group_by_payment_type",
     "get_top_categories_by_region"}

\* C13: every rollup is read-only: after the call the frame passed to it
\* has the columns, the dtypes and the values it had before the call.
C13_RollupsReadOnly ==
    rollup.op \in RollupOps => rollup.after = rollup.before

\* The tied categories of a region: those whose summed total is the
\* region's greatest.
Tied(rows, region) ==
    {c \in CategoriesIn(rows, region) :
        \A d \in CategoriesIn(rows, region) :
            PairTotal(rows, region, d) <= PairTotal(rows, region, c)}

\* C17: where two or more categories of a region have the same greatest
\* summed total_sales, get_top_categories_by_region returns one row for
\* the region, and its category is the tied one that comes first in the
\* (region, product_category) grouping, which is in sorted order whatever
\* the order of the input rows; the choice is a function of the input, so
\* repeated calls agree.
C17_TieTakesFirstGroup ==
    TopCalled =>
        \A g \in RegionsIn(rollup.before.rows) :
            Cardinality(Tied(rollup.before.rows, g)) >= 2 =>
                /\ Cardinality({n \in 1..Len(rollup.ret.rows) :
                                   rollup.ret.rows[n].region = g}) = 1
                /\ \A n \in 1..Len(rollup.ret.rows) :
                      rollup.ret.rows[n].region = g =>
                          /\ rollup.ret.rows[n].product_category
                                \in Tied(rollup.before.rows, g)
                          /\ \A c \in Tied(rollup.before.rows, g) :
                                ~StrLess(c, rollup.ret.rows[n].product_category)

\* A tie between a category summed from two rows and one of a single row
\* that the input has first.
C17_Witness ==
    /\ TopCalled
    /\ Len(rollup.before.rows) = 3
    /\ rollup.before.rows[1].product_category = "Cat2"
    /\ Tied(rollup.before.rows, "RegionA") = Categories
    /\ Len(rollup.ret.rows) = 1
    /\ rollup.ret.rows[1].product_category = "Cat1"
    /\ rollup.ret.rows[1].total_sales = 150

-----------------------------------------------------------------------------
(* The preparation scripts: prepare_customers_data, prepare_sales_data     *)

Scripts == {"customers", "sales"}

\* expected_columns of each script, in the order of the dict.
CustomersExpected ==
    <<<<"CustomerID", "int64">>, <<"Name", "object">>, <<"Region", "object">>,
      <<"JoinDate", "datetime64[ns]">>, <<"LoyaltyPoints", "int64">>,
      <<"PreferredContactMethod", "object">>>>

SalesExpected ==
    <<<<"TransactionID", "int64">>, <<"SaleDate", "datetime64[ns]">>,
      <<"ProductID", "int64">>, <<"StoreID", "int64">>,
      <<"CustomerID", "int64">>, <<"CampaignID", "int64">>,
      <<"SaleAmount", "float64">>, <<"DiscountPercent", "int64">>,
      <<"PaymentType", "object">>>>

expected_columns(script) ==
    IF script = "customers" THEN CustomersExpected ELSE SalesExpected

DateColumn(script) == IF script = "customers" THEN "JoinDate" ELSE "SaleDate"

\* Variant: only the names of the columns are compared.
VerifyNamesOnly(df, expected) ==
    {expected[i][1] : i \in 1..Len(expected)} = DOMAIN df.dtypes

\* verify_columns: the set of names first, then the dtype name of each
\* expected column in turn; False at the first one that differs.
VerifyColumns(df, expected) ==
    IF {expected[i][1] : i \in 1..Len(expected)} # DOMAIN df.dtypes
      THEN FALSE
      ELSE ~\E i \in 1..Len(expected) :
                /\ df.dtypes[expected[i][1]] # expected[i][2]
                /\ \A j \in 1..(i - 1) : df.dtypes[expected[j][1]] = expected[j][2]

\* A date cell is <<year, month, day>>; NaD is text pd.to_datetime cannot
\* parse.
NaD == <<0, 0, 0>>

\* df[date] = pd.to_datetime(df[date]): "KeyError" without the column,
\* "ValueError" on text that is no date, else the frame with the column
\* as datetime64[ns].
ToDatetimeColumn(df, col) ==
    IF col \notin DOMAIN df.dtypes THEN [exc |-> "KeyError", df |-> df]
    ELSE IF \E i \in 1..Len(df.rows) : df.rows[i][col] = NaD
      THEN [exc |-> "ValueError", df |-> df]
      ELSE [exc |-> "none",
            df  |-> Frame([df.dtypes EXCEPT ![col] = "datetime64[ns]"], df.rows)]

\* df.drop_duplicates(): of equal rows the first stays.
DropDuplicates(rows) ==
    LET first == {i \in 1..Len(rows) : \A j \in 1..(i - 1) : rows[j] # rows[i]}
    IN  [n \in 1..Cardinality(first) |->
            rows[CHOOSE i \in first : Cardinality({k \in first : k < i}) = n - 1]]

loyalty_points_limits == <<70, 100>>
allowed_payment_types == {"Card", "Cash"}

clean_dataframe(script, df) ==
    LET unique == DropDuplicates(df.rows)
    IN  Frame(df.dtypes,
              IF script = "customers"
                THEN SelectSeq(unique,
                        LAMBDA r : /\ r.LoyaltyPoints >= loyalty_points_limits[1]
                                   /\ r.LoyaltyPoints <= loyalty_points_limits[2])
                ELSE SelectSeq(unique,
                        LAMBDA r : r.PaymentType \in allowed_payment_types))

\* cleaned_df.to_csv(output_file, index=False): the file holds text, a
\* Timestamp as its date.
to_csv(df, dateColumn) ==
    [status |-> "written",
     frame  |-> Frame([df.dtypes EXCEPT ![dateColumn] = "object"], df.rows)]

\* Variant: the frame is saved whatever verify_columns said.
SaveAlways(valid, script, df, output) == to_csv(df, DateColumn(script))

\* if verify_columns(...): clean and save; else: log.  The output file
\* afterwards.
SaveIfValid(valid, script, df, output) ==
    IF valid THEN to_csv(clean_dataframe(script, df), DateColumn(script))
    ELSE output

\* The except clauses of process_data log; what is left of the output file.
PrepExcept(exc, output) == output

\* What the caller of process_data gets when exc reached the except
\* clauses (FileNotFoundError, then Exception).
PrepResult(exc) == "returned"

\* The raw files the scripts are run on.
RawCustomer(id, date, loyalty) ==
    [CustomerID |-> id, Name |-> "name", Region |-> "East", JoinDate |-> date,
     LoyaltyPoints |-> loyalty, PreferredContactMethod |-> "Email"]

RawSale(id, date, payment) ==
    [TransactionID |-> id, SaleDate |-> date, ProductID |-> 101,
     StoreID |-> 401, CustomerID |-> 1, CampaignID |-> 0, SaleAmount |-> 40,
     DiscountPercent |-> 10, PaymentType |-> payment]

\* A duplicated row, a row the cleaning drops and a row it keeps; the
\* date of one row is or is not a date.
RawRows(script, date) ==
    IF script = "customers"
      THEN <<RawCustomer(1, <<2023, 1, 5>>, 80), RawCustomer(1, <<2023, 1, 5>>, 80),
             RawCustomer(2, date, 50), RawCustomer(3, <<2023, 3, 1>>, 100)>>
      ELSE <<RawSale(1, <<2023, 1, 5>>, "Card"), RawSale(1, <<2023, 1, 5>>, "Card"),
             RawSale(2, date, "Cheque"), RawSale(3, <<2023, 3, 1>>, "Cash")>>

\* The dtypes pd.read_csv infers for a well-formed raw file.
RawDtypes(script) == IF script = "customers" THEN CustomersDtypes ELSE SalesDtypes

\* A raw frame with columns dropped, columns of another dtype (float64,
\* as for a column with empty cells) and possibly a column "Notes".
Deviate(df, change, extra) ==
    LET kept == {c \in DOMAIN df.dtypes : change[c] # "drop"}
        more == IF extra THEN {"Notes"} ELSE {}
    IN  Frame([c \in kept \cup more |->
                  IF c \notin kept THEN "object"
                  ELSE IF change[c] = "retype" THEN "float64"
                  ELSE df.dtypes[c]],
              [i \in 1..Len(df.rows) |->
                  [c \in kept \cup more |->
                      IF c \notin kept THEN "note" ELSE df.rows[i][c]]])

\* Every combination of changes for customers, at most one changed
\* column for sales.
Changes(script) ==
    IF script = "customers"
      THEN [DOMAIN CustomersDtypes -> {"keep", "drop", "retype"}]
      ELSE {f \in [DOMAIN SalesDtypes -> {"keep", "drop", "retype"}] :
               Cardinality({c \in DOMAIN SalesDtypes : f[c] # "keep"}) <= 1}

RawFrames(script) ==
    {Deviate(Frame(RawDtypes(script), RawRows(script, date)), change, extra) :
        date \in {<<2023, 2, 1>>, NaD}, change \in Changes(script),
        extra \in BOOLEAN}

\* The prepared file an earlier run left.
EarlierOutput(script) ==
    [status |-> "written",
     frame  |-> Frame(RawDtypes(script),
                      IF script = "customers"
                        THEN <<RawCustomer(9, <<2022, 12, 1>>, 90)>>
                        ELSE <<RawSale(9, <<2022, 12, 1>>, "Cash")>>)]

PrepInit ==
    /\ LoaderAtRest
    /\ cubeFile = NoCube
    /\ cube_data = EmptyFrame
    /\ rollup = NoRollup
    /\ \E script \in Scripts :
          /\ \E present \in BOOLEAN, frame \in RawFrames(script) :
                rawFile = [script |-> script, present |-> present,
                           frame |-> frame]
          /\ outputFile \in {NoOutput, EarlierOutput(script)}
    /\ prepCall = NoPrep

\* verify_columns applied to a frame as pd.read_csv returns it.
verify_columns ==
    /\ prepCall' = [op       |-> "verify_columns",
                    checked  |-> TRUE,
                    frame    |-> rawFile.frame,
                    verified |-> VerifyColumns(rawFile.frame,
                                               expected_columns(rawFile.script)),
                    logged   |-> "none",
                    result   |-> "returned",
                    before   |-> outputFile]
    /\ UNCHANGED <<inputs, loader, reader, cube, analysis, rawFile, outputFile>>

\* process_data, from pd.read_csv to its return.
process_data ==
    LET script == rawFile.script
        conv   == ToDatetimeColumn(rawFile.frame, DateColumn(script))
        exc    == IF ~rawFile.present THEN "FileNotFoundError" ELSE conv.exc
        valid  == VerifyColumns(conv.df, expected_columns(script))
    IN  /\ IF exc # "none"
             THEN /\ outputFile' = PrepExcept(exc, outputFile)
                  /\ prepCall' = [op |-> "process_data", checked |-> FALSE,
                                  frame |-> EmptyFrame, verified |-> FALSE,
                                  logged |-> exc, result |-> PrepResult(exc),
                                  before |-> outputFile]
             ELSE /\ outputFile' = SaveIfValid(valid, script, conv.df, outputFile)
                  /\ prepCall' = [op |-> "process_data", checked |-> TRUE,
                                  frame |-> conv.df, verified |-> valid,
                                  logged |-> IF valid THEN "none"
                                             ELSE "Validation failed",
                                  result |-> "returned",
                                  before |-> outputFile]
        /\ UNCHANGED <<inputs, loader, reader, cube, analysis, rawFile>>

PrepNext ==
    \/ verify_columns
    \/ process_data

PrepSpec == PrepInit /\ [][PrepNext]_vars

\* The columns of a frame with their dtype names, and the expected ones.
ColumnTypes(df) == {<<c, df.dtypes[c]>> : c \in DOMAIN df.dtypes}
ExpectedTypes == Range(expected_columns(rawFile.script))
ExpectedNames == {e[1] : e \in ExpectedTypes}

\* C18: verify_columns returns True exactly when the frame's column names
\* are the expected names, none missing and none more, and every expected
\* column has the expected dtype name; otherwise it returns False, and it
\* does not raise.
C18_VerifyColumns ==
    prepCall.checked =>
        /\ prepCall.result = "returned"
        /\ prepCall.verified
              <=> /\ DOMAIN prepCall.frame.dtypes = ExpectedNames
                  /\ \A e \in ExpectedTypes : prepCall.frame.dtypes[e[1]] = e[2]

\* The frame has the expected names and one column of another dtype.
C18_Witness ==
    /\ prepCall.checked
    /\ ~prepCall.verified
    /\ DOMAIN prepCall.frame.dtypes = ExpectedNames
    /\ Cardinality(ColumnTypes(prepCall.frame) \ ExpectedTypes) = 1

Accepted == prepCall.checked /\ ColumnTypes(prepCall.frame) = ExpectedTypes

\* C19: process_data writes the prepared file only when verify_columns
\* accepted the raw data: with the raw file missing or the validation
\* failed the prepared file is as it was before the call, a file of an
\* earlier run included, and process_data returns without raising.
C19_SaveOnlyValidated ==
    prepCall.op = "process_data" =>
        /\ prepCall.result = "returned"
        /\ (~rawFile.present \/ ~Accepted) => outputFile = prepCall.before
        /\ outputFile # prepCall.before => rawFile.present /\ Accepted

\* The raw file is there, its validation failed and an earlier prepared
\* file is still in place.
C19_Witness ==
    /\ prepCall.op = "process_data"
    /\ rawFile.present
    /\ prepCall.checked
    /\ ~prepCall.verified
    /\ prepCall.before = EarlierOutput(rawFile.script)
    /\ outputFile = EarlierOutput(rawFile.script)

====
